---- MODULE Spec2Model ----
(***************************************************************************)
(* GlowMin deployment scripts: deploy-metadata.js, mint-token.js and       *)
(* create-liquidity.js as one state machine.  One behaviour is one run of  *)
(* one script, from process start to process exit, against an environment  *)
(* (files, network) whose answers are chosen nondeterministically.         *)
(***************************************************************************)
EXTENDS Integers, Sequences, FiniteSets, TLC

(***************************************************************************)
(* Bounds of the model.                                                    *)
(***************************************************************************)
MaxSupply == 60
MaxClock == 1
MaxRecords == 2

(***************************************************************************)
(* JavaScript values: null / undefined, Number, BigInt, string.            *)
(***************************************************************************)
Null == [t |-> "null"]
Undefined == [t |-> "undefined"]
NaN == [t |-> "nan"]
Num(n) == [t |-> "number", v |-> n]
BigIntV(n) == [t |-> "bigint", v |-> n]

\* ToBoolean: null, undefined, NaN, 0 and 0n are falsy.
Truthy(x) ==
  CASE x.t = "null" -> FALSE
    [] x.t = "undefined" -> FALSE
    [] x.t = "nan" -> FALSE
    [] x.t = "number" -> x.v # 0
    [] x.t = "bigint" -> x.v # 0
    [] OTHER -> TRUE

Min(a, b) == IF a < b THEN a ELSE b

(***************************************************************************)
(* IEEE-754 binary64 arithmetic of `Math.floor(totalSupply * 0.4)`.        *)
(* A double constant is its 53-bit significand (hex digits, most           *)
(* significant first, of 0x1.hhhhhhhhhhhhh) and its binary exponent.       *)
(* Numbers wider than a machine word are sequences of bits, least          *)
(* significant first.                                                      *)
(***************************************************************************)
RECURSIVE HexBits(_)
\* bits (LSB first) of a sequence of hex digits (MSB first)
HexBits(h) ==
  IF h = <<>> THEN <<>>
  ELSE LET d == h[Len(h)]
       IN  <<d % 2, (d \div 2) % 2, (d \div 4) % 2, (d \div 8) % 2>>
             \o HexBits(SubSeq(h, 1, Len(h) - 1))

RECURSIVE TrimBits(_)
\* drop the zero bits above the most significant one
TrimBits(b) ==
  IF b = <<>> THEN <<>>
  ELSE IF b[Len(b)] = 0 THEN TrimBits(SubSeq(b, 1, Len(b) - 1)) ELSE b

RECURSIVE MulBits(_, _, _)
\* bits of n * (number whose bits are b) + carry
MulBits(b, n, carry) ==
  IF b = <<>>
  THEN IF carry = 0 THEN <<>> ELSE <<carry % 2>> \o MulBits(<<>>, n, carry \div 2)
  ELSE LET v == n * b[1] + carry
       IN  <<v % 2>> \o MulBits(Tail(b), n, v \div 2)

RECURSIVE IncBits(_)
\* bits of (number whose bits are b) + 1
IncBits(b) ==
  IF b = <<>> THEN <<1>>
  ELSE IF b[1] = 0 THEN <<1>> \o Tail(b) ELSE <<0>> \o IncBits(Tail(b))

RECURSIVE BitsToInt(_)
BitsToInt(b) == IF b = <<>> THEN 0 ELSE b[1] + 2 * BitsToInt(Tail(b))

Significand(d) == TrimBits(HexBits(<<1>> \o d.frac))

\* n * d for a non-negative integer n below 2^31 and a double d, rounded to
\* an integer: the exact product is rounded to 53 significant bits, ties to
\* even, and the double so obtained is taken down (Math.floor) or up
\* (Math.ceil) to an integer.
MulToInteger(n, d, up) ==
  LET p == TrimBits(MulBits(Significand(d), n, 0))
      \* value of the product = p * 2^(d.exp - 52)
      s == Len(p) - 53
      q == IF s <= 0 THEN p ELSE SubSeq(p, s + 1, Len(p))
      guard == IF s <= 0 THEN 0 ELSE p[s]
      sticky == IF s <= 1 THEN FALSE ELSE \E i \in 1..(s - 1) : p[i] = 1
      roundUp == guard = 1 /\ (sticky \/ q[1] = 1)
      r == IF roundUp THEN IncBits(q) ELSE q
      \* the double = r * 2^(-drop)
      drop == 52 - d.exp - (IF s <= 0 THEN 0 ELSE s)
      whole == IF drop >= Len(r) THEN 0 ELSE BitsToInt(SubSeq(r, drop + 1, Len(r)))
      part == \E i \in 1..Min(drop, Len(r)) : r[i] = 1
  IN  IF up /\ part THEN whole + 1 ELSE whole

\* Math.ceil(n * d)
CeilMul(n, d) == MulToInteger(n, d, TRUE)

\* Math.floor(n * d)
FloorMul(n, d) == MulToInteger(n, d, FALSE)

\* the double literals of calculateDistributions
D04 == [frac |-> <<9, 9, 9, 9, 9, 9, 9, 9, 9, 9, 9, 9, 10>>, exp |-> -2]
D03 == [frac |-> <<3, 3, 3, 3, 3, 3, 3, 3, 3, 3, 3, 3, 3>>, exp |-> -2]
D015 == [frac |-> <<3, 3, 3, 3, 3, 3, 3, 3, 3, 3, 3, 3, 3>>, exp |-> -3]
D01 == [frac |-> <<9, 9, 9, 9, 9, 9, 9, 9, 9, 9, 9, 9, 10>>, exp |-> -4]
D005 == [frac |-> <<9, 9, 9, 9, 9, 9, 9, 9, 9, 9, 9, 9, 10>>, exp |-> -5]

\* calculateDistributions with the fractions of Team and Marketing exchanged
calculateDistributionsSwapped(totalSupply) ==
  << [name |-> "Liquidity Pool", amount |-> BigIntV(FloorMul(totalSupply, D04)),
      recipient |-> "mintAuthority", purpose |-> "Initial liquidity provision"],
     [name |-> "Community", amount |-> BigIntV(FloorMul(totalSupply, D03)),
      recipient |-> "mintAuthority", purpose |-> "Community rewards and airdrops"],
     [name |-> "Team", amount |-> BigIntV(FloorMul(totalSupply, D01)),
      recipient |-> "mintAuthority", purpose |-> "Team allocation with vesting"],
     [name |-> "Marketing", amount |-> BigIntV(FloorMul(totalSupply, D015)),
      recipient |-> "mintAuthority", purpose |-> "Marketing campaigns and partnerships"],
     [name |-> "Reserve", amount |-> BigIntV(FloorMul(totalSupply, D005)),
      recipient |-> "mintAuthority", purpose |-> "Future development and emergency fund"] >>

\* TokenMinter.calculateDistributions: the recipient of every allocation is
\* the mint authority's public key.
calculateDistributions(totalSupply) ==
  << [name |-> "Liquidity Pool", amount |-> BigIntV(FloorMul(totalSupply, D04)),
      recipient |-> "mintAuthority", purpose |-> "Initial liquidity provision"],
     [name |-> "Community", amount |-> BigIntV(FloorMul(totalSupply, D03)),
      recipient |-> "mintAuthority", purpose |-> "Community rewards and airdrops"],
     [name |-> "Team", amount |-> BigIntV(FloorMul(totalSupply, D015)),
      recipient |-> "mintAuthority", purpose |-> "Team allocation with vesting"],
     [name |-> "Marketing", amount |-> BigIntV(FloorMul(totalSupply, D01)),
      recipient |-> "mintAuthority", purpose |-> "Marketing campaigns and partnerships"],
     [name |-> "Reserve", amount |-> BigIntV(FloorMul(totalSupply, D005)),
      recipient |-> "mintAuthority", purpose |-> "Future development and emergency fund"] >>


(***************************************************************************)
(* Command lines.  An argument is a string; the value after --amount or    *)
(* --sol-amount is read by BigInt / parseInt.                              *)
(***************************************************************************)
Str(s) == [t |-> "string", v |-> s]

\* decimal strings among the arguments and the integer they denote
DecimalValue == ("0" :> 0) @@ ("1" :> 1) @@ ("500" :> 500) @@ ("2000" :> 2000)

\* args[i]: undefined past the end of the array
ArgAt(args, i) == IF i <= Len(args) THEN Str(args[i]) ELSE Undefined

\* BigInt(x): a decimal string converts, undefined and any other string throw
BigIntOf(x) ==
  IF x.t = "string" /\ x.v \in DOMAIN DecimalValue
  THEN BigIntV(DecimalValue[x.v]) ELSE [t |-> "throw"]

\* parseInt(x): NaN for undefined and for a string with no leading digits
ParseIntOf(x) ==
  IF x.t = "string" /\ x.v \in DOMAIN DecimalValue
  THEN Num(DecimalValue[x.v]) ELSE NaN

DefaultOptions ==
  [network |-> Str("devnet"), amount |-> Null, solAmount |-> Null,
   dryRun |-> FALSE, verbose |-> FALSE]

RECURSIVE parseArgsFrom(_, _, _, _)
\* the for/switch loop of parseArgs, from index i with the options so far
parseArgsFrom(scr, args, i, options) ==
  IF i > Len(args) THEN [kind |-> "options", options |-> options]
  ELSE CASE args[i] = "--network" ->
              parseArgsFrom(scr, args, i + 2,
                            [options EXCEPT !.network = ArgAt(args, i + 1)])
         [] args[i] = "--amount" /\ scr = "mint" ->
              LET a == BigIntOf(ArgAt(args, i + 1))
              IN  IF a.t = "throw" THEN [kind |-> "throw"]
                  ELSE parseArgsFrom(scr, args, i + 2, [options EXCEPT !.amount = a])
         [] args[i] = "--sol-amount" /\ scr = "pool" ->
              parseArgsFrom(scr, args, i + 2,
                            [options EXCEPT !.solAmount = ParseIntOf(ArgAt(args, i + 1))])
         [] args[i] = "--dry-run" ->
              parseArgsFrom(scr, args, i + 1, [options EXCEPT !.dryRun = TRUE])
         [] args[i] = "--verbose" ->
              parseArgsFrom(scr, args, i + 1, [options EXCEPT !.verbose = TRUE])
         [] args[i] = "--help" -> [kind |-> "exit"]
         [] OTHER -> parseArgsFrom(scr, args, i + 1, options)

parseArgs(scr, args) == parseArgsFrom(scr, args, 1, DefaultOptions)

\* constructor(network = 'devnet'): the default applies to undefined
NetworkOf(options) ==
  IF options.network.t = "undefined" THEN "devnet" ELSE options.network.v

(***************************************************************************)
(* Inputs of a run.                                                        *)
(***************************************************************************)
Scripts == {"metadata", "mint", "pool"}

CommonArgLists ==
  { <<>>, <<"--dry-run">>, <<"--help">>, <<"--dry-run", "--help">>,
    <<"--network", "badnet">>, <<"--network">>, <<"--verbose", "--dry-run">> }

ArgLists(scr) ==
  CASE scr = "mint" ->
         CommonArgLists \cup
         { <<"--amount", "500">>, <<"--amount", "0">>, <<"--amount", "1">>,
           <<"--amount", "500", "--dry-run">>, <<"--dry-run", "--amount", "1">>,
           <<"--dry-run", "--amount", "0">>,
           <<"--amount", "abc">>, <<"--amount">>, <<"--amount", "abc", "--help">> }
    [] scr = "pool" ->
         CommonArgLists \cup
         { <<"--sol-amount", "2000">>, <<"--sol-amount", "0">>,
           <<"--sol-amount", "2000", "--dry-run">>, <<"--sol-amount", "abc">>,
           <<"--sol-amount">> }
    [] OTHER -> CommonArgLists

FileStates == {"absent", "valid", "malformed"}

\* the credential files each script looks for, in the order it reads them
KeyFiles(scr) ==
  CASE scr = "metadata" -> <<"mintAuthority", "metadataAuthority">>
    [] scr = "mint" -> <<"mintAuthority", "freezeAuthority">>
    [] OTHER -> <<"main", "liquidityAuthority">>

\* keys of config.network
ConfigNetworks == {"devnet", "testnet", "mainnet-beta"}

DocumentedSupply == 100000000
Supplies == {0, 19, DocumentedSupply}

\* config.raydium.initial_liquidity.sol_amount, config.fees.transaction_fee,
\* config.raydium.initial_liquidity.glowmin_amount
ConfigSolAmounts == {1000}
TransactionFees == {5}
ConfigGlowminAmounts == {10}
\* answers of getBalance and getTokenAccountBalance
SolBalances == {0, 1049, 1050, 2050}
TokenBalances == {9, 10, 100}

NoExit == -1

VARIABLES script, argv, files, config, dirExists, clock,
          pc, exitCode, options, keypairs, mintAddress,
          distributions, idx, results, log, records

vars == <<script, argv, files, config, dirExists, clock,
          pc, exitCode, options, keypairs, mintAddress,
          distributions, idx, results, log, records>>

env == <<script, argv, files, config>>

Init ==
  /\ script \in Scripts
  /\ argv \in ArgLists(script)
  /\ files \in [ {"config"} \cup (IF script = "metadata" THEN {"metadata"} ELSE {})
                 \cup {KeyFiles(script)[i] : i \in 1..2} -> FileStates ]
  /\ config \in [total_supply : (IF script = "mint" THEN Supplies ELSE {DocumentedSupply}),
                 sol_amount : ConfigSolAmounts,
                 transaction_fee : TransactionFees,
                 glowmin_amount : ConfigGlowminAmounts]
  /\ dirExists \in BOOLEAN
  /\ clock = 0
  /\ pc = "parseArgs"
  /\ exitCode = NoExit
  /\ options = DefaultOptions
  /\ keypairs = {}
  /\ mintAddress = Null
  /\ distributions = <<>>
  /\ idx = 0
  /\ results = <<>>
  /\ log = <<>>
  /\ records = <<>>

\* process.exit(code), or the end of main when nothing is left to run
Exit(code) == pc' = "exited" /\ exitCode' = code

Ev(call, arg, ok) == [call |-> call, arg |-> arg, ok |-> ok]

(***************************************************************************)
(* main: parseArgs, then the constructor (loadConfig, loadMetadata,        *)
(* createConnection, loadKeypairs).                                        *)
(***************************************************************************)
ParseArgs ==
  /\ pc = "parseArgs"
  /\ LET r == parseArgs(script, argv)
     IN  CASE r.kind = "exit" -> Exit(0) /\ UNCHANGED options
           [] r.kind = "throw" -> Exit(1) /\ UNCHANGED options
           [] OTHER -> pc' = "loadConfig" /\ options' = r.options /\ UNCHANGED exitCode
  /\ UNCHANGED <<env, dirExists, clock, keypairs, mintAddress, distributions,
                 idx, results, log, records>>

LoadConfig ==
  /\ pc = "loadConfig"
  /\ IF files["config"] = "valid"
     THEN pc' = (IF script = "metadata" THEN "loadMetadata" ELSE "createConnection")
          /\ UNCHANGED exitCode
     ELSE Exit(1)
  /\ UNCHANGED <<env, dirExists, clock, options, keypairs, mintAddress,
                 distributions, idx, results, log, records>>

LoadMetadata ==
  /\ pc = "loadMetadata"
  /\ IF files["metadata"] = "valid"
     THEN pc' = "createConnection" /\ UNCHANGED exitCode
     ELSE Exit(1)
  /\ UNCHANGED <<env, dirExists, clock, options, keypairs, mintAddress,
                 distributions, idx, results, log, records>>

\* CreateConnection going on with a network the configuration does not name
CreateConnectionLenient ==
  /\ pc = "createConnection"
  /\ pc' = "loadKeypairs" /\ UNCHANGED exitCode
  /\ UNCHANGED <<env, dirExists, clock, options, keypairs, mintAddress,
                 distributions, idx, results, log, records>>

\* createConnection: the network must be a key of config.network
CreateConnection ==
  /\ pc = "createConnection"
  /\ IF NetworkOf(options) \in ConfigNetworks
     THEN pc' = "loadKeypairs" /\ UNCHANGED exitCode
     ELSE Exit(1)
  /\ UNCHANGED <<env, dirExists, clock, options, keypairs, mintAddress,
                 distributions, idx, results, log, records>>

\* loadKeypairs refusing to go on without one of its files
loadKeypairsStrict(scr, fs) ==
  IF \E i \in 1..2 : fs[KeyFiles(scr)[i]] # "valid"
  THEN [kind |-> "throw"]
  ELSE [kind |-> "keypairs", keypairs |-> {KeyFiles(scr)[i] : i \in 1..2}]

\* loadKeypairs: a file that exists is parsed; an absent one is skipped
loadKeypairs(scr, fs) ==
  IF \E i \in 1..2 : fs[KeyFiles(scr)[i]] = "malformed"
  THEN [kind |-> "throw"]
  ELSE [kind |-> "keypairs",
        keypairs |-> {KeyFiles(scr)[i] : i \in {j \in 1..2 : fs[KeyFiles(scr)[j]] = "valid"}}]

FirstStep(scr) ==
  CASE scr = "metadata" -> "getVersion"
    [] scr = "mint" -> "createTokenMint"
    [] OTHER -> "checkMint"

LoadKeypairs ==
  /\ pc = "loadKeypairs"
  /\ LET r == loadKeypairs(script, files)
     IN  IF r.kind = "throw"
         THEN Exit(1) /\ UNCHANGED keypairs
         ELSE keypairs' = r.keypairs /\ pc' = FirstStep(script) /\ UNCHANGED exitCode
  /\ UNCHANGED <<env, dirExists, clock, options, mintAddress,
                 distributions, idx, results, log, records>>


(***************************************************************************)
(* mint-token.js: TokenMinter.executeMinting.                              *)
(***************************************************************************)
\* createTokenMint: reading .publicKey of a keypair that was not loaded
\* throws before createMint is called.
CreateTokenMint ==
  /\ pc = "createTokenMint"
  /\ IF {"mintAuthority", "freezeAuthority"} \subseteq keypairs
     THEN \E ok \in BOOLEAN :
            /\ log' = Append(log, Ev("createMint", Null, ok))
            /\ IF ok
               THEN /\ mintAddress' = Str("mint")
                    /\ pc' = (IF Truthy(options.amount)
                              THEN "mintAmountAccount" ELSE "distributeTokens")
                    /\ UNCHANGED exitCode
               ELSE Exit(1) /\ UNCHANGED mintAddress
     ELSE Exit(1) /\ UNCHANGED <<log, mintAddress>>
  /\ UNCHANGED <<env, dirExists, clock, options, keypairs,
                 distributions, idx, results, records>>

\* mintTokens(mintAuthority.publicKey, BigInt(amount)), first call:
\* createTokenAccount
MintAmountAccount ==
  /\ pc = "mintAmountAccount"
  /\ \E ok \in BOOLEAN :
       /\ log' = Append(log, Ev("getOrCreateAssociatedTokenAccount", Null, ok))
       /\ IF ok THEN pc' = "mintAmountMintTo" /\ UNCHANGED exitCode ELSE Exit(1)
  /\ UNCHANGED <<env, dirExists, clock, options, keypairs, mintAddress,
                 distributions, idx, results, records>>

\* MintAmountMintTo swallowing the error of mintTo
MintAmountMintToSwallowing ==
  /\ pc = "mintAmountMintTo"
  /\ \E ok \in BOOLEAN :
       /\ log' = Append(log, Ev("mintTo", options.amount, ok))
       /\ Exit(0)
  /\ UNCHANGED <<env, dirExists, clock, options, keypairs, mintAddress,
                 distributions, idx, results, records>>

\* mintTokens, second call: mintTo; then `if (!dryRun && !amount)` is false
\* and executeMinting returns.
MintAmountMintTo ==
  /\ pc = "mintAmountMintTo"
  /\ \E ok \in BOOLEAN :
       /\ log' = Append(log, Ev("mintTo", options.amount, ok))
       /\ Exit(IF ok THEN 0 ELSE 1)
  /\ UNCHANGED <<env, dirExists, clock, options, keypairs, mintAddress,
                 distributions, idx, results, records>>

\* DistributeTokens revoking the mint authority after showing the plan
DistributeTokensRevoking ==
  /\ pc = "distributeTokens"
  /\ distributions' = calculateDistributions(config.total_supply)
  /\ IF options.dryRun
     THEN /\ log' = log \o <<Ev("showDistributionPlan", Null, TRUE),
                             Ev("setAuthority", Null, TRUE)>>
          /\ Exit(0)
          /\ UNCHANGED <<idx, results>>
     ELSE /\ results' = <<>>
          /\ idx' = 1
          /\ pc' = "distributeAccount"
          /\ UNCHANGED <<log, exitCode>>
  /\ UNCHANGED <<env, dirExists, clock, options, keypairs, mintAddress, records>>

\* distributeTokens up to the loop: the plan is computed, and under dryRun it
\* is shown and executeMinting returns without revoking.
DistributeTokens ==
  /\ pc = "distributeTokens"
  /\ distributions' = calculateDistributions(config.total_supply)
  /\ IF options.dryRun
     THEN /\ log' = Append(log, Ev("showDistributionPlan", Null, TRUE))
          /\ Exit(0)
          /\ UNCHANGED <<idx, results>>
     ELSE /\ results' = <<>>
          /\ idx' = 1
          /\ pc' = "distributeAccount"
          /\ UNCHANGED <<log, exitCode>>
  /\ UNCHANGED <<env, dirExists, clock, options, keypairs, mintAddress, records>>

\* a successful and a failed entry of the results array
ResultOk(d) == d @@ [tokenAccount |-> "ata", signature |-> "sig"]
ResultError(d) == d @@ [error |-> "message"]

\* the loop moves to the next distribution, or past the loop
AfterStep(i) ==
  IF i < Len(distributions)
  THEN idx' = i + 1 /\ pc' = "distributeAccount"
  ELSE idx' = i + 1 /\ pc' = "saveDistributionResults"

\* DistributeAccount leaving the loop at the first failure
DistributeAccountStopping ==
  /\ pc = "distributeAccount"
  /\ \E ok \in BOOLEAN :
       /\ log' = Append(log, Ev("getOrCreateAssociatedTokenAccount", Num(idx), ok))
       /\ IF ok
          THEN pc' = "distributeMintTo" /\ UNCHANGED <<idx, results>>
          ELSE results' = Append(results, ResultError(distributions[idx]))
               /\ idx' = idx + 1 /\ pc' = "saveDistributionResults"
  /\ UNCHANGED <<env, dirExists, clock, exitCode, options, keypairs, mintAddress,
                 distributions, records>>

\* loop body, mintTokens: createTokenAccount
DistributeAccount ==
  /\ pc = "distributeAccount"
  /\ \E ok \in BOOLEAN :
       /\ log' = Append(log, Ev("getOrCreateAssociatedTokenAccount", Num(idx), ok))
       /\ IF ok
          THEN pc' = "distributeMintTo" /\ UNCHANGED <<idx, results>>
          ELSE results' = Append(results, ResultError(distributions[idx]))
               /\ AfterStep(idx)
  /\ UNCHANGED <<env, dirExists, clock, exitCode, options, keypairs, mintAddress,
                 distributions, records>>

\* loop body, mintTokens: mintTo
DistributeMintTo ==
  /\ pc = "distributeMintTo"
  /\ \E ok \in BOOLEAN :
       /\ log' = Append(log, Ev("mintTo", distributions[idx].amount, ok))
       /\ IF ok
          THEN results' = Append(results, ResultOk(distributions[idx]))
               /\ pc' = "distributeDelay" /\ UNCHANGED idx
          ELSE results' = Append(results, ResultError(distributions[idx]))
               /\ AfterStep(idx)
  /\ UNCHANGED <<env, dirExists, clock, exitCode, options, keypairs, mintAddress,
                 distributions, records>>

\* loop body after a successful mint: setTimeout(resolve, 1000)
DistributeDelay ==
  /\ pc = "distributeDelay"
  /\ log' = Append(log, Ev("delay", Num(idx), TRUE))
  /\ AfterStep(idx)
  /\ UNCHANGED <<env, dirExists, clock, exitCode, options, keypairs, mintAddress,
                 distributions, results, records>>

\* JSON.stringify throws a TypeError on a BigInt value
HasBigInt(rs) == \E i \in DOMAIN rs : rs[i].amount.t = "bigint"

\* the file a record goes to: <kind>-<network>-<Date.now()>.json
RecordPath(kind, t) == <<kind, NetworkOf(options), t>>

\* SaveDistributionResults with a JSON.stringify that accepts BigInt values
SaveDistributionResultsSerialising ==
  /\ pc = "saveDistributionResults"
  /\ \E t \in clock..Min(clock + 1, MaxClock), mk \in BOOLEAN, wr \in BOOLEAN,
        rv \in BOOLEAN :
       /\ clock' = t
       /\ IF ~dirExists /\ ~mk
          THEN Exit(1) /\ UNCHANGED <<dirExists, records, log>>
          ELSE /\ dirExists' = TRUE
               /\ IF ~wr
                  THEN Exit(1) /\ UNCHANGED <<records, log>>
                  ELSE /\ records' = Append(records,
                              [path |-> RecordPath("minting", t),
                               body |-> [network |-> NetworkOf(options),
                                         mintAddress |-> mintAddress,
                                         totalSupply |-> config.total_supply,
                                         distributions |-> results]])
                       /\ log' = Append(log, Ev("setAuthority", Null, rv))
                       /\ Exit(IF rv THEN 0 ELSE 1)
  /\ UNCHANGED <<env, options, keypairs, mintAddress, distributions, idx, results>>

\* saveDistributionResults(results), and after it the rest of executeMinting:
\* `if (!dryRun && !amount) revokeMintAuthority()`.  mkdirSync, writeFileSync
\* and setAuthority may each fail; any throw ends in process.exit(1).
SaveDistributionResults ==
  /\ pc = "saveDistributionResults"
  /\ \E t \in clock..Min(clock + 1, MaxClock), mk \in BOOLEAN, wr \in BOOLEAN,
        rv \in BOOLEAN :
       /\ clock' = t
       /\ IF ~dirExists /\ ~mk
          THEN Exit(1) /\ UNCHANGED <<dirExists, records, log>>
          ELSE /\ dirExists' = TRUE
               /\ IF HasBigInt(results) \/ ~wr
                  THEN Exit(1) /\ UNCHANGED <<records, log>>
                  ELSE /\ records' = Append(records,
                              [path |-> RecordPath("minting", t),
                               body |-> [network |-> NetworkOf(options),
                                         mintAddress |-> mintAddress,
                                         totalSupply |-> config.total_supply,
                                         distributions |-> results]])
                       /\ log' = Append(log, Ev("setAuthority", Null, rv))
                       /\ Exit(IF rv THEN 0 ELSE 1)
  /\ UNCHANGED <<env, options, keypairs, mintAddress, distributions, idx, results>>


(***************************************************************************)
(* deploy-metadata.js: MetadataDeployer.deployMetadata.                    *)
(***************************************************************************)
\* checkNetworkHealth, first query
GetVersion ==
  /\ pc = "getVersion"
  /\ \E ok \in BOOLEAN :
       /\ log' = Append(log, Ev("getVersion", Null, ok))
       /\ IF ok THEN pc' = "getSlot" /\ UNCHANGED exitCode ELSE Exit(1)
  /\ UNCHANGED <<env, dirExists, clock, options, keypairs, mintAddress,
                 distributions, idx, results, records>>

\* GetSlot without the dryRun test of deployMetadata
GetSlotIgnoringDryRun ==
  /\ pc = "getSlot"
  /\ \E ok \in BOOLEAN :
       /\ log' = Append(log, Ev("getSlot", Null, ok))
       /\ IF ok
          THEN pc' = "createMetadataAccount" /\ UNCHANGED exitCode
          ELSE Exit(1)
  /\ UNCHANGED <<env, dirExists, clock, options, keypairs, mintAddress,
                 distributions, idx, results, records>>

\* checkNetworkHealth, second query; a healthy network leads to the plan
\* under dryRun and to the deployment otherwise
GetSlot ==
  /\ pc = "getSlot"
  /\ \E ok \in BOOLEAN :
       /\ log' = Append(log, Ev("getSlot", Null, ok))
       /\ IF ok
          THEN pc' = (IF options.dryRun THEN "showDeploymentPlan"
                      ELSE "createMetadataAccount")
               /\ UNCHANGED exitCode
          ELSE Exit(1)
  /\ UNCHANGED <<env, dirExists, clock, options, keypairs, mintAddress,
                 distributions, idx, results, records>>

\* ShowDeploymentPlan asking the network for the slot once more
ShowDeploymentPlanQuerying ==
  /\ pc = "showDeploymentPlan"
  /\ log' = log \o <<Ev("showDeploymentPlan", Null, TRUE), Ev("getSlot", Null, TRUE)>>
  /\ Exit(0)
  /\ UNCHANGED <<env, dirExists, clock, options, keypairs, mintAddress,
                 distributions, idx, results, records>>

\* showDeploymentPlan, then deployMetadata returns and the process ends
ShowDeploymentPlan ==
  /\ pc = "showDeploymentPlan"
  /\ log' = Append(log, Ev("showDeploymentPlan", Null, TRUE))
  /\ Exit(0)
  /\ UNCHANGED <<env, dirExists, clock, options, keypairs, mintAddress,
                 distributions, idx, results, records>>

\* createMetadataAccountV3(connection, keypairs.metadataAuthority,
\* {mint: keypairs.mintAuthority.publicKey, ...}): an unloaded mint authority
\* throws while the arguments are built, an unloaded metadata authority is
\* passed on as undefined and throws after the call, at the log of its key.
CreateMetadataAccount ==
  /\ pc = "createMetadataAccount"
  /\ IF "mintAuthority" \in keypairs
     THEN \E ok \in BOOLEAN :
            /\ log' = Append(log, Ev("createMetadataAccountV3",
                                     IF "metadataAuthority" \in keypairs
                                     THEN Str("metadataAuthority") ELSE Undefined, ok))
            /\ IF ok /\ "metadataAuthority" \in keypairs
               THEN pc' = "saveDeploymentInfo" /\ UNCHANGED exitCode
               ELSE Exit(1)
     ELSE Exit(1) /\ UNCHANGED log
  /\ UNCHANGED <<env, dirExists, clock, options, keypairs, mintAddress,
                 distributions, idx, results, records>>

\* SaveDeploymentInfo treating a failed write as a warning
SaveDeploymentInfoTolerant ==
  /\ pc = "saveDeploymentInfo"
  /\ \E t \in clock..Min(clock + 1, MaxClock), mk \in BOOLEAN, wr \in BOOLEAN :
       /\ clock' = t
       /\ IF ~dirExists /\ ~mk
          THEN Exit(1) /\ UNCHANGED <<dirExists, records>>
          ELSE /\ dirExists' = TRUE
               /\ IF wr
                  THEN /\ records' = Append(records,
                              [path |-> RecordPath("metadata", t),
                               body |-> [network |-> NetworkOf(options),
                                         metadataAccount |-> "metadataAccount",
                                         mint |-> "mintAuthority",
                                         updateAuthority |-> "metadataAuthority"]])
                       /\ Exit(0)
                  ELSE Exit(0) /\ UNCHANGED records
  /\ UNCHANGED <<env, options, keypairs, mintAddress, distributions, idx,
                 results, log>>

\* saveDeploymentInfo: mkdirSync when the directory is missing, writeFileSync;
\* a throw is caught by deployMetadata, which exits 1
SaveDeploymentInfo ==
  /\ pc = "saveDeploymentInfo"
  /\ \E t \in clock..Min(clock + 1, MaxClock), mk \in BOOLEAN, wr \in BOOLEAN :
       /\ clock' = t
       /\ IF ~dirExists /\ ~mk
          THEN Exit(1) /\ UNCHANGED <<dirExists, records>>
          ELSE /\ dirExists' = TRUE
               /\ IF wr
                  THEN /\ records' = Append(records,
                              [path |-> RecordPath("metadata", t),
                               body |-> [network |-> NetworkOf(options),
                                         metadataAccount |-> "metadataAccount",
                                         mint |-> "mintAuthority",
                                         updateAuthority |-> "metadataAuthority"]])
                       /\ Exit(0)
                  ELSE Exit(1) /\ UNCHANGED records
  /\ UNCHANGED <<env, options, keypairs, mintAddress, distributions, idx,
                 results, log>>

(***************************************************************************)
(* create-liquidity.js: LiquidityCreator.executePoolCreation.              *)
(***************************************************************************)
RECURSIVE NumberToString(_)
\* Number.prototype.toString of a non-negative integer, as its digits
NumberToString(n) == IF n < 10 THEN <<n>> ELSE NumberToString(n \div 10) \o <<n % 10>>

RECURSIVE StringLess(_, _)
\* a < b on strings: by code unit, a proper prefix is smaller
StringLess(a, b) ==
  IF b = <<>> THEN FALSE
  ELSE IF a = <<>> THEN TRUE
  ELSE IF a[1] # b[1] THEN a[1] < b[1]
  ELSE StringLess(Tail(a), Tail(b))

\* solAmount || config.raydium.initial_liquidity.sol_amount
ActualSolAmount ==
  IF Truthy(options.solAmount) THEN options.solAmount.v ELSE config.sol_amount

\* checkPrerequisites, mint exists: getParsedAccountInfo
CheckMint ==
  /\ pc = "checkMint"
  /\ \E r \in {"found", "missing", "error"} :
       /\ log' = Append(log, Ev("getParsedAccountInfo", Str(r), r # "error"))
       /\ IF r = "found" THEN pc' = "checkSol" /\ UNCHANGED exitCode ELSE Exit(1)
  /\ UNCHANGED <<env, dirExists, clock, options, keypairs, mintAddress,
                 distributions, idx, results, records>>

\* CheckSol printing the shortfall and going on
CheckSolContinuing ==
  /\ pc = "checkSol"
  /\ IF "main" \in keypairs
     THEN \/ /\ log' = Append(log, Ev("getBalance", Null, FALSE))
             /\ Exit(1)
          \/ \E balance \in SolBalances :
               /\ log' = Append(log, Ev("getBalance", Num(balance), TRUE))
               /\ pc' = "checkGlowmin" /\ UNCHANGED exitCode
     ELSE Exit(1) /\ UNCHANGED log
  /\ UNCHANGED <<env, dirExists, clock, options, keypairs, mintAddress,
                 distributions, idx, results, records>>

\* checkPrerequisites, SOL balance: getBalance(keypairs.main.publicKey)
CheckSol ==
  /\ pc = "checkSol"
  /\ IF "main" \in keypairs
     THEN \/ /\ log' = Append(log, Ev("getBalance", Null, FALSE))
             /\ Exit(1)
          \/ \E balance \in SolBalances :
               LET requiredBalance == config.sol_amount + config.transaction_fee * 10
               IN  /\ log' = Append(log, Ev("getBalance", Num(balance), TRUE))
                   /\ IF balance < requiredBalance
                      THEN Exit(1)
                      ELSE pc' = "checkGlowmin" /\ UNCHANGED exitCode
     ELSE Exit(1) /\ UNCHANGED log
  /\ UNCHANGED <<env, dirExists, clock, options, keypairs, mintAddress,
                 distributions, idx, results, records>>

\* checkPrerequisites, GLOWMIN balance: the amount of getTokenAccountBalance
\* is a string and is compared with requiredTokens.toString()
CheckGlowmin ==
  /\ pc = "checkGlowmin"
  /\ \/ /\ log' = Append(log, Ev("getTokenAccountBalance", Null, FALSE))
        /\ Exit(1)
     \/ \E amount \in TokenBalances :
          /\ log' = Append(log, Ev("getTokenAccountBalance", Num(amount), TRUE))
          /\ IF StringLess(NumberToString(amount), NumberToString(config.glowmin_amount))
             THEN Exit(1)
             ELSE pc' = (IF options.dryRun THEN "showCreationPlan" ELSE "createPool")
                  /\ UNCHANGED exitCode
  /\ UNCHANGED <<env, dirExists, clock, options, keypairs, mintAddress,
                 distributions, idx, results, records>>

ShowCreationPlan ==
  /\ pc = "showCreationPlan"
  /\ log' = Append(log, Ev("showCreationPlan", Num(ActualSolAmount), TRUE))
  /\ Exit(0)
  /\ UNCHANGED <<env, dirExists, clock, options, keypairs, mintAddress,
                 distributions, idx, results, records>>

\* PoolStep going on to the next step after a failure
PoolStepContinuing(here, call, arg, next) ==
  /\ pc = here
  /\ \E ok \in BOOLEAN :
       /\ log' = Append(log, Ev(call, arg, ok))
       /\ pc' = next /\ UNCHANGED exitCode
  /\ UNCHANGED <<env, dirExists, options, keypairs, mintAddress,
                 distributions, idx, results, records>>

\* one step of the pipeline: it succeeds and the next one starts, or it
\* throws and executePoolCreation exits 1
PoolStep(here, call, arg, next) ==
  /\ pc = here
  /\ \E ok \in BOOLEAN :
       /\ log' = Append(log, Ev(call, arg, ok))
       /\ IF ok THEN pc' = next /\ UNCHANGED exitCode ELSE Exit(1)
  /\ UNCHANGED <<env, dirExists, options, keypairs, mintAddress,
                 distributions, idx, results, records>>

CreatePool ==
  /\ PoolStep("createPool", "createPool", Num(ActualSolAmount), "addInitialLiquidity")
  /\ \E t \in clock..Min(clock + 1, MaxClock) : clock' = t

AddInitialLiquidity ==
  /\ PoolStep("addInitialLiquidity", "addInitialLiquidity", Num(ActualSolAmount),
              "lockLiquidity")
  /\ UNCHANGED clock

LockLiquidity ==
  /\ PoolStep("lockLiquidity", "lockLiquidity", Null, "savePoolInfo")
  /\ \E t \in clock..Min(clock + 1, MaxClock) : clock' = t

SavePoolInfo ==
  /\ pc = "savePoolInfo"
  /\ \E t \in clock..Min(clock + 1, MaxClock), mk \in BOOLEAN, wr \in BOOLEAN :
       /\ clock' = t
       /\ IF ~dirExists /\ ~mk
          THEN Exit(1) /\ UNCHANGED <<dirExists, records>>
          ELSE /\ dirExists' = TRUE
               /\ IF wr
                  THEN /\ records' = Append(records,
                              [path |-> RecordPath("pool", t),
                               body |-> [network |-> NetworkOf(options),
                                         poolAddress |-> "pool",
                                         initialLiquidity |->
                                           [solAmount |-> config.sol_amount,
                                            glowminAmount |-> config.glowmin_amount]]])
                       /\ Exit(0)
                  ELSE Exit(1) /\ UNCHANGED records
  /\ UNCHANGED <<env, options, keypairs, mintAddress, distributions, idx,
                 results, log>>

Next ==
  \/ ParseArgs \/ LoadConfig \/ LoadMetadata \/ CreateConnection \/ LoadKeypairs
  \/ CreateTokenMint \/ MintAmountAccount \/ MintAmountMintTo
  \/ DistributeTokens \/ DistributeAccount \/ DistributeMintTo \/ DistributeDelay
  \/ SaveDistributionResults
  \/ GetVersion \/ GetSlot \/ ShowDeploymentPlan \/ CreateMetadataAccount
  \/ SaveDeploymentInfo
  \/ CheckMint \/ CheckSol \/ CheckGlowmin \/ ShowCreationPlan
  \/ CreatePool \/ AddInitialLiquidity \/ LockLiquidity \/ SavePoolInfo

Spec == Init /\ [][Next]_vars

(***************************************************************************)
(* Runs that follow one another on the same machine: the same command is   *)
(* started again after the process has exited.  The deployments directory  *)
(* and the clock are those the earlier run left; the process state is      *)
(* fresh.                                                                  *)
(***************************************************************************)
NextRun ==
  /\ pc = "exited"
  /\ Len(records) < MaxRecords
  /\ pc' = "parseArgs"
  /\ exitCode' = NoExit
  /\ options' = DefaultOptions
  /\ keypairs' = {}
  /\ mintAddress' = Null
  /\ distributions' = <<>>
  /\ idx' = 0
  /\ results' = <<>>
  /\ log' = <<>>
  /\ UNCHANGED <<env, dirExists, clock, records>>

NextRecords == Next \/ NextRun

SpecRecords == Init /\ [][NextRecords]_vars


(***************************************************************************)
(* calculateDistributions on its own: the plan of every total supply of    *)
(* PlanSupplies.                                                           *)
(***************************************************************************)
PlanSupplies == (0..MaxSupply) \cup {DocumentedSupply}

InitPlan ==
  /\ script = "mint"
  /\ argv = <<>>
  /\ files = [f \in {"config", "mintAuthority", "freezeAuthority"} |-> "valid"]
  /\ config \in [total_supply : PlanSupplies, sol_amount : ConfigSolAmounts,
                 transaction_fee : TransactionFees,
                 glowmin_amount : ConfigGlowminAmounts]
  /\ dirExists = FALSE
  /\ clock = 0
  /\ pc = "plan"
  /\ exitCode = NoExit
  /\ options = DefaultOptions
  /\ keypairs = {"mintAuthority", "freezeAuthority"}
  /\ mintAddress = Null
  /\ distributions = <<>>
  /\ idx = 0
  /\ results = <<>>
  /\ log = <<>>
  /\ records = <<>>

\* CalculatePlan taking what it allocates off the configured supply
CalculatePlanConsuming ==
  /\ pc = "plan"
  /\ distributions' = calculateDistributions(config.total_supply)
  /\ config' = [config EXCEPT !.total_supply =
                   @ - FloorMul(@, D04) - FloorMul(@, D03) - FloorMul(@, D015)
                     - FloorMul(@, D01) - FloorMul(@, D005)]
  /\ pc' = "planned"
  /\ UNCHANGED <<script, argv, files, dirExists, clock, exitCode, options, keypairs,
                 mintAddress, idx, results, log, records>>

\* a first call of calculateDistributions on the constructed minter
CalculatePlan ==
  /\ pc = "plan"
  /\ distributions' = calculateDistributions(config.total_supply)
  /\ pc' = "planned"
  /\ UNCHANGED <<env, dirExists, clock, exitCode, options, keypairs, mintAddress,
                 idx, results, log, records>>

\* a second call on the same minter
CalculatePlanAgain ==
  /\ pc = "planned"
  /\ distributions' = calculateDistributions(config.total_supply)
  /\ pc' = "replanned"
  /\ UNCHANGED <<env, dirExists, clock, exitCode, options, keypairs, mintAddress,
                 idx, results, log, records>>

NextPlan == CalculatePlan \/ CalculatePlanAgain

SpecPlan == InitPlan /\ [][NextPlan]_vars

(***************************************************************************)
(* Vocabulary of the properties.                                           *)
(***************************************************************************)
\* positions of the log where `call` was invoked
Calls(call) == {i \in DOMAIN log : log[i].call = call}
Called(call) == Calls(call) # {}

Exited == pc = "exited"

\* external calls that change the chain
MutatingCalls ==
  {"createMint", "getOrCreateAssociatedTokenAccount", "mintTo", "setAuthority",
   "createMetadataAccountV3", "createPool", "addInitialLiquidity", "lockLiquidity"}

\* read-only queries of the connection
QueryCalls ==
  {"getVersion", "getSlot", "getParsedAccountInfo", "getBalance",
   "getTokenAccountBalance"}

PlanCalls == {"showDistributionPlan", "showDeploymentPlan", "showCreationPlan"}

PlanNames == <<"Liquidity Pool", "Community", "Team", "Marketing", "Reserve">>


\* the run is the mint action in dry-run mode / the metadata or pool action
\* in dry-run mode (options are those parseArgs returned)
MetadataOrPoolDryRun == script \in {"metadata", "pool"} /\ options.dryRun

(***************************************************************************)
(* C1: in every run of the mint action started with --dry-run and without  *)
(* --amount, createMint, getOrCreateAssociatedTokenAccount, mintTo and     *)
(* setAuthority are never invoked and no record file is written.           *)
(***************************************************************************)
C1_MintDryRunSubmitsNothing ==
  (script = "mint" /\ options.dryRun /\ options.amount = Null) =>
    /\ \A i \in DOMAIN log :
         log[i].call \notin {"createMint", "getOrCreateAssociatedTokenAccount",
                             "mintTo", "setAuthority"}
    /\ records = <<>>

(***************************************************************************)
(* C2: in the mint action, when --dry-run is given together with           *)
(* --amount <n>, no mintTo call is submitted.                              *)
(***************************************************************************)
C2_MintDryRunWithAmountNoMintTo ==
  (script = "mint" /\ options.dryRun /\ options.amount # Null) => ~Called("mintTo")

(***************************************************************************)
(* C3: a dry-run of the metadata action or of the pool action never        *)
(* reaches a mutating step or the record write: createMetadataAccountV3,   *)
(* saveDeploymentInfo, createPool, addInitialLiquidity, lockLiquidity and  *)
(* savePoolInfo are not invoked and no record exists.                      *)
(***************************************************************************)
C3_DryRunNeverMutates ==
  MetadataOrPoolDryRun =>
    /\ pc \notin {"createMetadataAccount", "saveDeploymentInfo", "createPool",
                  "addInitialLiquidity", "lockLiquidity", "savePoolInfo"}
    /\ \A i \in DOMAIN log : log[i].call \notin MutatingCalls
    /\ records = <<>>

\* a dry-run of the pool action that passed the prerequisites, showed the
\* plan and exited 0
C3_Witness ==
  /\ script = "pool" /\ options.dryRun
  /\ Exited /\ exitCode = 0
  /\ Called("showCreationPlan")

(***************************************************************************)
(* C4, as stated: from start to exit of a dry-run of the metadata action   *)
(* or of the pool action, getVersion, getSlot, getParsedAccountInfo,       *)
(* getBalance and getTokenAccountBalance are called zero times.            *)
(***************************************************************************)
C4_DryRunNoQueries ==
  MetadataOrPoolDryRun => \A i \in DOMAIN log : log[i].call \notin QueryCalls

(***************************************************************************)
(* C4, amended: in a dry-run of the metadata action or of the pool action  *)
(* the only calls are the read-only queries of the health check            *)
(* (getVersion, getSlot) or of the prerequisite check                      *)
(* (getParsedAccountInfo, getBalance, getTokenAccountBalance), each made   *)
(* at most once and all before the plan is shown; showing the plan makes   *)
(* no call and no call follows it.                                         *)
(***************************************************************************)
C4_DryRunQueriesOnlyBeforePlan ==
  MetadataOrPoolDryRun =>
    /\ \A i \in DOMAIN log :
         log[i].call \in
           (IF script = "metadata"
            THEN {"getVersion", "getSlot", "showDeploymentPlan"}
            ELSE {"getParsedAccountInfo", "getBalance", "getTokenAccountBalance",
                  "showCreationPlan"})
    /\ \A i \in DOMAIN log : log[i].call \in PlanCalls => i = Len(log)
    /\ \A c \in QueryCalls : Cardinality(Calls(c)) <= 1

\* a dry-run of the metadata action that queried the network twice, then
\* showed the plan and exited 0
C4_Witness ==
  /\ script = "metadata" /\ options.dryRun
  /\ Exited /\ exitCode = 0
  /\ Len(log) = 3
  /\ log[1].call = "getVersion" /\ log[2].call = "getSlot"
  /\ log[3].call = "showDeploymentPlan"

\* the distribution step an event of the loop belongs to: an account event
\* carries the step, a mintTo follows the account event of its step
StepOfEvent(j) ==
  IF log[j].call = "getOrCreateAssociatedTokenAccount" THEN log[j].arg.v
  ELSE log[j - 1].arg.v

\* the external call of step i failed
StepFailed(i) ==
  \E j \in DOMAIN log :
    /\ log[j].call \in {"getOrCreateAssociatedTokenAccount", "mintTo"}
    /\ StepOfEvent(j) = i
    /\ ~log[j].ok

(***************************************************************************)
(* C5: in a full mint run (no --amount, no --dry-run) in which createMint  *)
(* succeeds, whatever distribution steps fail, all five steps are          *)
(* attempted, the persisted record holds exactly five results in plan      *)
(* order, a result has an error exactly when its step failed and a         *)
(* signature exactly when it succeeded, and the process exits 0.           *)
(***************************************************************************)
C5_ContinueOnError ==
  ( /\ script = "mint" /\ options.amount = Null /\ ~options.dryRun
    /\ \E i \in Calls("createMint") : log[i].ok
    /\ Exited ) =>
    /\ Len(results) = 5
    /\ \A i \in DOMAIN results :
         /\ results[i].name = PlanNames[i]
         /\ ("error" \in DOMAIN results[i]) <=> StepFailed(i)
         /\ ("signature" \in DOMAIN results[i]) <=> ~StepFailed(i)
    /\ Len(records) = 1
    /\ records[1].body.distributions = results
    /\ exitCode = 0

\* the events of the pool pipeline, in the order they happened
PoolCalls == <<"createPool", "addInitialLiquidity", "lockLiquidity">>
PoolEvents ==
  SelectSeq(log, LAMBDA e : e.call \in {PoolCalls[k] : k \in 1..3})

(***************************************************************************)
(* C6: pool creation is stop-on-first-error: the steps run in the order    *)
(* createPool, addInitialLiquidity, lockLiquidity, savePoolInfo; a step is *)
(* started only if every earlier one succeeded; if one fails no later step *)
(* is executed and the process exits with a non-zero status.               *)
(***************************************************************************)
C6_PoolStopsOnFirstError ==
  script = "pool" =>
    LET pe == PoolEvents
        allOk == Len(pe) = 3 /\ \A k \in DOMAIN pe : pe[k].ok
    IN  /\ Len(pe) <= 3
        /\ \A k \in DOMAIN pe : pe[k].call = PoolCalls[k]
        /\ \A k \in DOMAIN pe : k < Len(pe) => pe[k].ok
        /\ (\E k \in DOMAIN pe : ~pe[k].ok) =>
             Exited /\ exitCode = 1 /\ records = <<>>
        /\ (pc = "savePoolInfo" \/ records # <<>>) => allOk
        /\ (Exited /\ allOk /\ records = <<>>) => exitCode = 1

\* scenario C: createPool succeeded, addInitialLiquidity failed,
\* lockLiquidity never ran and the process exited 1
C6_Witness ==
  /\ script = "pool" /\ Exited /\ exitCode = 1
  /\ Len(PoolEvents) = 2
  /\ PoolEvents[1].call = "createPool" /\ PoolEvents[1].ok
  /\ PoolEvents[2].call = "addInitialLiquidity" /\ ~PoolEvents[2].ok
  /\ ~Called("lockLiquidity")

(***************************************************************************)
(* C7: for every amount n passed as --amount <n> to the mint action, n = 0 *)
(* included, the proportional plan is bypassed: exactly one mintTo of n    *)
(* units is submitted, none of the five allocation steps is executed and   *)
(* setAuthority is not invoked.                                            *)
(***************************************************************************)
C7_AmountBypassesPlan ==
  (script = "mint" /\ options.amount # Null) =>
    /\ distributions = <<>> /\ results = <<>> /\ idx = 0
    /\ ~Called("setAuthority") /\ ~Called("showDistributionPlan")
    /\ Cardinality(Calls("mintTo")) <= 1
    /\ \A i \in Calls("mintTo") : log[i].arg = options.amount
    /\ (Exited /\ exitCode = 0) => Cardinality(Calls("mintTo")) = 1

\* the account events of the distribution loop, in the order they happened
AccountEvents ==
  SelectSeq(log, LAMBDA e : e.call = "getOrCreateAssociatedTokenAccount"
                            /\ e.arg # Null)

(***************************************************************************)
(* C8: distribution steps are submitted in the order of                    *)
(* calculateDistributions (Liquidity Pool, Community, Team, Marketing,     *)
(* Reserve): step i+1 is started only after step i has finished with       *)
(* success or failure, and no step is skipped, repeated or reordered,      *)
(* whatever the outcomes of earlier steps.                                 *)
(***************************************************************************)
C8_DistributionOrder ==
  (script = "mint" /\ idx >= 1) =>
    LET acc == AccountEvents
    IN  /\ Len(acc) <= 5
        /\ \A k \in DOMAIN acc : acc[k].arg = Num(k)
        /\ Len(results) <= Len(acc) /\ Len(acc) <= Len(results) + 1
        /\ \A i \in DOMAIN results :
             /\ results[i].name = PlanNames[i]
             /\ results[i].amount = distributions[i].amount
        /\ \A j \in Calls("mintTo") :
             /\ j > 1
             /\ log[j - 1].call = "getOrCreateAssociatedTokenAccount"
             /\ log[j - 1].ok
             /\ log[j].arg = distributions[log[j - 1].arg.v].amount
        /\ (pc = "saveDistributionResults" \/ Exited) =>
             Len(acc) = 5 /\ Len(results) = 5

\* the loop is over after a first step that failed and a second that
\* succeeded
C8_Witness ==
  /\ script = "mint" /\ pc = "saveDistributionResults"
  /\ Len(results) = 5
  /\ "error" \in DOMAIN results[1]
  /\ "signature" \in DOMAIN results[2]

PlanAmount(i) == distributions[i].amount.v
PlanSum == PlanAmount(1) + PlanAmount(2) + PlanAmount(3) + PlanAmount(4) + PlanAmount(5)

(***************************************************************************)
(* C9: for every total supply T, calculateDistributions returns five       *)
(* allocations whose amounts are floor(T*0.4), floor(T*0.3),               *)
(* floor(T*0.15), floor(T*0.1), floor(T*0.05) in that order; for           *)
(* T = 100000000 they are 40000000, 30000000, 15000000, 10000000, 5000000  *)
(* and sum to 100000000.                                                   *)
(***************************************************************************)
C9_PlanAmounts ==
  distributions # <<>> =>
    LET T == config.total_supply
    IN  /\ Len(distributions) = 5
        /\ \A i \in 1..5 : /\ distributions[i].name = PlanNames[i]
                           /\ distributions[i].amount.t = "bigint"
        /\ PlanAmount(1) = (T * 2) \div 5
        /\ PlanAmount(2) = (T * 3) \div 10
        /\ PlanAmount(3) = (T * 3) \div 20
        /\ PlanAmount(4) = T \div 10
        /\ PlanAmount(5) = T \div 20
        /\ T = 100000000 =>
             /\ <<PlanAmount(1), PlanAmount(2), PlanAmount(3), PlanAmount(4),
                  PlanAmount(5)>> = <<40000000, 30000000, 15000000, 10000000, 5000000>>
             /\ PlanSum = 100000000

\* scenario A: the plan of the documented supply
C9_Witness ==
  /\ pc = "planned"
  /\ config.total_supply = 100000000
  /\ PlanAmount(1) = 40000000 /\ PlanAmount(5) = 5000000

(***************************************************************************)
(* C10: for every non-negative integer total supply T the sum S of the     *)
(* five allocation amounts satisfies T - 4 <= S <= T.                      *)
(***************************************************************************)
C10_PlanSumBounds ==
  distributions # <<>> =>
    /\ config.total_supply - 4 <= PlanSum
    /\ PlanSum <= config.total_supply

\* a supply whose plan loses the full four units to flooring
C10_Witness ==
  /\ pc = "planned"
  /\ PlanSum = config.total_supply - 4


FailedSteps == {j \in DOMAIN log : log[j].call \in MutatingCalls /\ ~log[j].ok}

\* the record holds an entry that carries an error
RecordsFailure(rec) ==
  /\ "distributions" \in DOMAIN rec.body
  /\ \E i \in DOMAIN rec.body.distributions :
       "error" \in DOMAIN rec.body.distributions[i]

(***************************************************************************)
(* C12: step failures are always recorded: in every action, when the       *)
(* external call of a step fails during a run that is not a dry run, a     *)
(* record file persisted by that run contains an entry for the failure; no *)
(* run ends with a failed step and no persisted trace of it.               *)
(***************************************************************************)
C12_StepFailuresRecorded ==
  (Exited /\ ~options.dryRun /\ FailedSteps # {}) =>
    \E k \in DOMAIN records : RecordsFailure(records[k])

(***************************************************************************)
(* C13: one record per run: every run that is not a dry run and exits with *)
(* status 0 has written exactly one record file, and no run writes more    *)
(* than one; for the mint action also when --amount is given.              *)
(***************************************************************************)
C13_OneRecordPerRun ==
  /\ Len(records) <= 1
  /\ ( /\ Exited /\ exitCode = 0 /\ ~options.dryRun
       /\ parseArgs(script, argv).kind = "options" ) => Len(records) = 1

(***************************************************************************)
(* C14: records are never overwritten: two record writes of the same       *)
(* action for the same network, the second of which may read the clock     *)
(* value the first one read, go to two distinct file paths.                *)
(***************************************************************************)
C14_RecordsNeverOverwritten ==
  \A i, j \in DOMAIN records : i < j => records[i].path # records[j].path


\* the queries of checkPrerequisites, in the order they happened
PrereqCalls == <<"getParsedAccountInfo", "getBalance", "getTokenAccountBalance">>
PrereqEvents ==
  SelectSeq(log, LAMBDA e : e.call \in {PrereqCalls[k] : k \in 1..3})

\* the check that made the query let the run go on: the mint was found, the
\* SOL balance is at least sol_amount + 10 * transaction_fee, the GLOWMIN
\* amount is not below the required one in the comparison the script makes
CheckPassed(e) ==
  CASE e.call = "getParsedAccountInfo" -> e.arg = Str("found")
    [] e.call = "getBalance" ->
         e.ok /\ e.arg.v >= config.sol_amount + config.transaction_fee * 10
    [] OTHER ->
         e.ok /\ ~StringLess(NumberToString(e.arg.v),
                             NumberToString(config.glowmin_amount))

(***************************************************************************)
(* C15: in the pool action the three prerequisite checks run in the order  *)
(* mint exists, SOL balance, GLOWMIN balance; the first failing check ends *)
(* the process with status 1 without any later check; createPool is        *)
(* reached only when all three checks passed.                              *)
(***************************************************************************)
C15_PrerequisiteOrder ==
  script = "pool" =>
    LET pe == PrereqEvents
    IN  /\ Len(pe) <= 3
        /\ \A k \in DOMAIN pe : pe[k].call = PrereqCalls[k]
        /\ \A k \in DOMAIN pe : k < Len(pe) => CheckPassed(pe[k])
        /\ \A k \in DOMAIN pe :
             ~CheckPassed(pe[k]) => Exited /\ exitCode = 1 /\ Len(log) = k
        /\ Len(pe) >= 2 => "main" \in keypairs
        /\ (pc = "createPool" \/ Called("createPool")) =>
             Len(pe) = 3 /\ \A k \in 1..3 : CheckPassed(pe[k]) /\ log[k] = pe[k]

\* the mint exists, the SOL balance is too low: exit 1 before the GLOWMIN
\* balance is asked for
C15_Witness ==
  /\ script = "pool" /\ Exited /\ exitCode = 1
  /\ Len(log) = 2
  /\ CheckPassed(log[1])
  /\ log[2].call = "getBalance" /\ log[2].ok /\ ~CheckPassed(log[2])

\* the credentials an action uses when it executes
RequiredKeys ==
  CASE script = "metadata" -> {"mintAuthority", "metadataAuthority"}
    [] script = "mint" -> {"mintAuthority", "freezeAuthority"}
    [] OTHER -> {"main"}

\* the command line is one parseArgs accepts, and it asks for no dry run
ExecutingRun ==
  LET r == parseArgs(script, argv)
  IN  r.kind = "options" /\ ~r.options.dryRun

(***************************************************************************)
(* C16: a missing required credential is fatal before execution: in a run  *)
(* that is not a dry run and in which a credential file the action uses is *)
(* absent, the process exits non-zero and createMetadataAccountV3,         *)
(* createMint, mintTo and createPool are never submitted.                  *)
(***************************************************************************)
C16_MissingCredentialFatal ==
  (ExecutingRun /\ \E k \in RequiredKeys : files[k] = "absent") =>
    /\ Exited => exitCode = 1
    /\ \A i \in DOMAIN log :
         log[i].call \notin {"createMetadataAccountV3", "createMint", "mintTo",
                             "createPool"}

KeyNames == {KeyFiles(script)[i] : i \in 1..2}

(***************************************************************************)
(* C17: loading credentials with a credential file absent does not end the *)
(* process and returns a mapping that lacks exactly the keys whose files   *)
(* are absent; a file that is present but malformed ends the process with  *)
(* status 1 before any network call is made.                               *)
(***************************************************************************)
C17_CredentialLoading ==
  [][ pc = "loadKeypairs" =>
        IF \E k \in KeyNames : files[k] = "malformed"
        THEN pc' = "exited" /\ exitCode' = 1 /\ log' = <<>>
        ELSE /\ pc' # "exited" /\ exitCode' = NoExit
             /\ keypairs' = {k \in KeyNames : files[k] # "absent"} ]_vars

\* the mint action went on with the mint authority alone
C17_Witness ==
  /\ script = "mint" /\ pc = "createTokenMint"
  /\ files["freezeAuthority"] = "absent"
  /\ keypairs = {"mintAuthority"}

\* parseArgs returned, and the configuration file is absent or unparsable
\* or the requested network is not a key of config.network
ConfigurationFails ==
  LET r == parseArgs(script, argv)
  IN  /\ r.kind = "options"
      /\ \/ files["config"] # "valid"
         \/ NetworkOf(r.options) \notin ConfigNetworks

(***************************************************************************)
(* C18: configuration failures are fatal and come before execution: if the *)
(* configuration file is absent or unparsable, or the requested network is *)
(* not a key of config.network, the script exits with status 1 before      *)
(* loading credentials and before any network call or file write.          *)
(***************************************************************************)
C18_ConfigFailureFatal ==
  ConfigurationFails =>
    /\ pc \in {"parseArgs", "loadConfig", "loadMetadata", "createConnection",
               "exited"}
    /\ Exited => exitCode = 1
    /\ keypairs = {} /\ log = <<>> /\ records = <<>>

\* a run for a network the configuration does not name, ended with status 1
C18_Witness ==
  /\ argv = <<"--network", "badnet">>
  /\ files["config"] = "valid"
  /\ Exited /\ exitCode = 1
  /\ log = <<>>

(***************************************************************************)
(* C19: for every argument list that contains --help, whatever the other   *)
(* arguments and their position, the script prints usage and exits with    *)
(* status 0 without loading configuration or credentials and without any   *)
(* network call or file write.                                             *)
(***************************************************************************)
C19_HelpAlwaysExitsZero ==
  (\E i \in DOMAIN argv : argv[i] = "--help") =>
    /\ pc \in {"parseArgs", "exited"}
    /\ Exited => exitCode = 0
    /\ keypairs = {} /\ log = <<>> /\ records = <<>>

\* a check of the constructor or of the prerequisites failed, a required
\* credential is missing from a run that executes, or parseArgs threw
FatalCheckFailed ==
  \/ parseArgs(script, argv).kind = "throw"
  \/ ConfigurationFails
  \/ /\ parseArgs(script, argv).kind = "options"
     /\ \/ script = "metadata" /\ files["metadata"] # "valid"
        \/ \E k \in KeyNames : files[k] = "malformed"
  \/ ExecutingRun /\ \E k \in RequiredKeys : files[k] = "absent"
  \/ script = "pool" /\ \E k \in DOMAIN PrereqEvents : ~CheckPassed(PrereqEvents[k])

\* an error left the step boundary: a failed call outside the distribution
\* loop, whose errors are caught and kept in the results
ErrorEscaped ==
  \E j \in DOMAIN log :
    /\ ~log[j].ok
    /\ \/ log[j].call \in {"createMint", "setAuthority", "createMetadataAccountV3",
                           "createPool", "addInitialLiquidity", "lockLiquidity",
                           "getVersion", "getSlot"}
       \/ log[j].call = "getOrCreateAssociatedTokenAccount" /\ log[j].arg = Null
       \/ log[j].call = "mintTo" /\ idx = 0

\* what the run was asked to do has been done: usage printed, plan shown,
\* or the last step of the action completed
RunSucceeded ==
  \/ parseArgs(script, argv).kind = "exit"
  \/ log # <<>> /\ log[Len(log)].call \in PlanCalls
  \/ script = "metadata" /\ Len(records) = 1
       /\ \E j \in Calls("createMetadataAccountV3") : log[j].ok
  \/ script = "pool" /\ Len(records) = 1
       /\ Len(PoolEvents) = 3 /\ \A k \in 1..3 : PoolEvents[k].ok
  \/ script = "mint" /\ log # <<>>
       /\ log[Len(log)].call \in {"mintTo", "setAuthority"} /\ log[Len(log)].ok
       /\ idx \in {0, 6}

(***************************************************************************)
(* C20: every run of an action script ends with exit status 0 or 1: 1      *)
(* whenever a configuration, credential or prerequisite check failed or an *)
(* error escaped the step boundary, and 0 only for a run that succeeded    *)
(* (full success, successful dry run, or usage printed) with none of those *)
(* failures.                                                               *)
(***************************************************************************)
C20_ExitCodes ==
  /\ exitCode \in {NoExit, 0, 1}
  /\ Exited <=> exitCode # NoExit
  /\ (Exited /\ (FatalCheckFailed \/ ErrorEscaped)) => exitCode = 1
  /\ (Exited /\ exitCode = 0) => RunSucceeded

\* createMetadataAccountV3 failed and the run ended with status 1
C20_Witness ==
  /\ script = "metadata" /\ Exited /\ exitCode = 1
  /\ \E j \in Calls("createMetadataAccountV3") : ~log[j].ok


\* the pool steps that take the SOL amount
SolAmountCalls == {"createPool", "addInitialLiquidity"}

(***************************************************************************)
(* C21: the SOL balance prerequisite covers the amount actually used: in   *)
(* every pool run that reaches createPool, the balance read by the check   *)
(* is at least the SOL amount passed to createPool and                     *)
(* addInitialLiquidity plus ten times the configured transaction fee,      *)
(* also when --sol-amount overrides the configured amount.                 *)
(***************************************************************************)
C21_SolCheckCoversUsedAmount ==
  script = "pool" =>
    \A j \in DOMAIN log :
      log[j].call \in SolAmountCalls =>
        \E i \in Calls("getBalance") :
          /\ i < j /\ log[i].ok
          /\ log[i].arg.v >= log[j].arg.v + config.transaction_fee * 10

(***************************************************************************)
(* C22: for every integer n passed as --sol-amount n to the pool action    *)
(* (n = 0 included), the SOL amount used by createPool, by                 *)
(* addInitialLiquidity and shown by the dry-run plan is n, not the         *)
(* configured sol_amount.                                                  *)
(***************************************************************************)
C22_SolAmountOverride ==
  script = "pool" =>
    \A i \in DOMAIN argv :
      (argv[i] = "--sol-amount" /\ i < Len(argv) /\ argv[i + 1] \in DOMAIN DecimalValue) =>
        \A j \in DOMAIN log :
          log[j].call \in SolAmountCalls \cup {"showCreationPlan"} =>
            log[j].arg = Num(DecimalValue[argv[i + 1]])

(***************************************************************************)
(* C23: the GLOWMIN balance prerequisite is a numeric comparison: the      *)
(* check fails and the process exits 1 exactly when the balance is below   *)
(* the required amount as numbers, also for a pair whose decimal           *)
(* representations differ in length (balance 9, required 10).              *)
(***************************************************************************)
C23_GlowminCheckNumeric ==
  script = "pool" =>
    \A j \in Calls("getTokenAccountBalance") :
      log[j].ok =>
        (log[j].arg.v < config.glowmin_amount
           <=> (Exited /\ exitCode = 1 /\ j = Len(log)))

(***************************************************************************)
(* C29: the persisted pool record reflects what was executed: in every     *)
(* pool run that writes a record, initialLiquidity.solAmount of the record *)
(* equals the SOL amount passed to createPool and addInitialLiquidity in   *)
(* that run, also when --sol-amount was given.                             *)
(***************************************************************************)
C29_PoolRecordReflectsRun ==
  script = "pool" =>
    \A k \in DOMAIN records :
      \A j \in DOMAIN log :
        log[j].call \in SolAmountCalls =>
          records[k].body.initialLiquidity.solAmount = log[j].arg.v


\* the flag occurs on the command line
HasFlag(flag) == \E i \in DOMAIN argv : argv[i] = flag

RECURSIVE MintedIn(_)
\* the units minted by the successful mintTo calls of a sequence of events
MintedIn(s) ==
  IF s = <<>> THEN 0
  ELSE (IF s[1].call = "mintTo" /\ s[1].ok THEN s[1].arg.v ELSE 0) + MintedIn(Tail(s))

C26_DelayBetweenSteps ==
  script = "mint" =>
    \A j \in DOMAIN log :
      ( /\ log[j].call = "getOrCreateAssociatedTokenAccount"
        /\ log[j].arg # Null
        /\ log[j].arg.v > 1 ) =>
        log[j - 1].call = "delay" /\ log[j - 1].arg.v = log[j].arg.v - 1

(***************************************************************************)
(* C30: a persistence failure does not undo completed external actions and *)
(* is fatal for what follows: when the distribution record of a full mint  *)
(* run, or the record of the metadata action after a successful            *)
(* createMetadataAccountV3, is not written, the process exits with status  *)
(* 1, no further external call is made (setAuthority is never invoked) and *)
(* the calls already made stay as they are.                                *)
(***************************************************************************)
C30_PersistenceFailureFatal ==
  [][ (pc \in {"saveDistributionResults", "saveDeploymentInfo"} /\ records' = records) =>
        /\ pc' = "exited" /\ exitCode' = 1
        /\ log' = log
        /\ ~\E j \in DOMAIN log' : log'[j].call = "setAuthority" ]_vars

\* the metadata account was created, the record was not written, status 1
C30_Witness ==
  /\ script = "metadata" /\ Exited /\ exitCode = 1
  /\ \E j \in Calls("createMetadataAccountV3") : log[j].ok
  /\ "metadataAuthority" \in keypairs
  /\ records = <<>>


(***************************************************************************)
(* deploy-all.sh: the orchestrator.  `set -e` is in force, so a command    *)
(* that returns a non-zero status outside a condition ends the shell with  *)
(* that status at once; the ERR trap is not inherited by functions.        *)
(* An event of the log is a child process (call: the program, arg: its     *)
(* words, ok: status 0) or a line of output (call: the logging function).  *)
(***************************************************************************)
ShellArgLists ==
  { <<>>, <<"--dry-run">>, <<"--verbose">>, <<"--help">>, <<"--bogus">>,
    <<"--network">>, <<"--sol-amount", "2000">>,
    <<"--dry-run", "--sol-amount", "2000">>,
    <<"--network", "testnet", "--dry-run">>, <<"--dry-run", "--help">> }

\* what check_prerequisites and generate_keypairs look at
ShellFiles == {"node", "solana", "node_modules", "keypairs", "mint-authority.json"}

\* the statuses of a child that is not among the sources of the repository
ChildStatuses == {0, 1, 2}

\* NETWORK="devnet" VERBOSE=false DRY_RUN=false SOL_AMOUNT=""
ShellDefaults ==
  [network |-> "devnet", amount |-> Null, solAmount |-> "", dryRun |-> FALSE,
   verbose |-> FALSE]

RECURSIVE ShellParseFrom(_, _, _)
\* the while/case loop over "$@": --network and --sol-amount take "$2" and
\* shift 2, which fails under set -e when "$2" is missing
ShellParseFrom(args, i, o) ==
  IF i > Len(args) THEN [kind |-> "options", options |-> o]
  ELSE IF args[i] \in {"--network", "--sol-amount"}
       THEN IF i + 1 > Len(args)
            THEN [kind |-> "exit", code |-> 1, out |-> <<>>]
            ELSE ShellParseFrom(args, i + 2,
                   IF args[i] = "--network"
                   THEN [o EXCEPT !.network = args[i + 1]]
                   ELSE [o EXCEPT !.solAmount = args[i + 1]])
  ELSE IF args[i] = "--dry-run"
       THEN ShellParseFrom(args, i + 1, [o EXCEPT !.dryRun = TRUE])
  ELSE IF args[i] = "--verbose"
       THEN ShellParseFrom(args, i + 1, [o EXCEPT !.verbose = TRUE])
  ELSE IF args[i] = "--help"
       THEN [kind |-> "exit", code |-> 0, out |-> <<Ev("show_help", <<>>, TRUE)>>]
  ELSE [kind |-> "exit", code |-> 1,
        out |-> <<Ev("log_error", <<"Unknown option">>, TRUE),
                  Ev("show_help", <<>>, TRUE)>>]

InitDeployAll ==
  /\ script = "deploy-all"
  /\ argv \in ShellArgLists
  /\ files \in {f \in [ShellFiles -> {"absent", "valid", "old"}] :
                  /\ \A k \in ShellFiles \ {"node"} : f[k] # "old"
                  /\ f["keypairs"] = "absent" => f["mint-authority.json"] = "absent"}
  /\ config = [total_supply |-> DocumentedSupply, sol_amount |-> 1000,
               transaction_fee |-> 5, glowmin_amount |-> 10]
  /\ dirExists = FALSE
  /\ clock = 0
  /\ pc = "parse"
  /\ exitCode = NoExit
  /\ options = ShellDefaults
  /\ keypairs = {}
  /\ mintAddress = Null
  /\ distributions = <<>>
  /\ idx = 0
  /\ results = <<>>
  /\ log = <<>>
  /\ records = <<>>

\* the argument loop at the top level of the script
ShellParse ==
  /\ pc = "parse"
  /\ LET r == ShellParseFrom(argv, 1, ShellDefaults)
     IN  IF r.kind = "options"
         THEN /\ options' = r.options
              /\ pc' = "check_prerequisites"
              /\ UNCHANGED <<exitCode, log>>
         ELSE /\ log' = log \o r.out
              /\ Exit(r.code)
              /\ UNCHANGED options
  /\ UNCHANGED <<env, dirExists, clock, keypairs, mintAddress, distributions, idx,
                 results, records>>

\* check_prerequisites: node, its version, solana, node_modules (npm install
\* when missing), the keypairs directory
CheckPrerequisites ==
  /\ pc = "check_prerequisites"
  /\ IF files["node"] = "absent"
     THEN log' = Append(log, Ev("log_error", <<"Node.js is not installed">>, TRUE))
          /\ Exit(1)
     ELSE IF files["node"] = "old"
     THEN log' = Append(log, Ev("log_error", <<"Node.js version 16 or higher is required">>, TRUE))
          /\ Exit(1)
     ELSE IF files["solana"] = "absent"
     THEN log' = Append(log, Ev("log_error", <<"Solana CLI is not installed">>, TRUE))
          /\ Exit(1)
     ELSE \E st \in IF files["node_modules"] = "absent" THEN ChildStatuses ELSE {0} :
            LET npm == IF files["node_modules"] = "absent"
                       THEN <<Ev("npm", <<"install">>, st = 0)>> ELSE <<>>
            IN  IF st # 0
                THEN log' = log \o npm /\ Exit(st)
                ELSE IF files["keypairs"] = "absent"
                THEN log' = log \o npm \o
                            <<Ev("log_error", <<"Keypairs directory not found">>, TRUE)>>
                     /\ Exit(1)
                ELSE log' = log \o npm
                     /\ pc' = "generate_keypairs" /\ UNCHANGED exitCode
  /\ UNCHANGED <<env, dirExists, clock, options, keypairs, mintAddress,
                 distributions, idx, results, records>>

\* the words of a child's command line that are not empty
Words(ws) == SelectSeq(ws, LAMBDA w : w # "")

\* local dry_run_flag / verbose_flag / sol_amount_flag
DryRunFlag == IF options.dryRun THEN "--dry-run" ELSE ""
VerboseFlag == IF options.verbose THEN "--verbose" ELSE ""
SolAmountFlag ==
  IF options.solAmount # "" THEN <<"--sol-amount", options.solAmount>> ELSE <<>>

\* `node <file> <words>` as a simple command under set -e: status 0 goes on
\* to the test of $?, whose else branch is never taken; any other status
\* ends the shell with that status
RunNode(here, file, words, statuses, success, next) ==
  /\ pc = here
  /\ \E st \in statuses :
       IF st = 0
       THEN /\ log' = log \o <<Ev(file, Words(words), TRUE),
                               Ev("log_success", <<success>>, TRUE)>>
            /\ pc' = next /\ UNCHANGED exitCode
       ELSE /\ log' = Append(log, Ev(file, Words(words), FALSE))
            /\ Exit(st)

\* generate_keypairs: skipped when keypairs/mint-authority.json exists
GenerateKeypairs ==
  IF files["mint-authority.json"] = "valid"
  THEN /\ pc = "generate_keypairs"
       /\ log' = Append(log, Ev("log_warning", <<"Keypairs already exist. Skipping generation.">>, TRUE))
       /\ pc' = "deploy_metadata"
       /\ UNCHANGED <<env, dirExists, clock, exitCode, options, keypairs, mintAddress,
                      distributions, idx, results, records>>
  ELSE /\ RunNode("generate_keypairs", "generate-keypairs.js",
                  <<"--network", options.network>>, ChildStatuses,
                  "Keypairs generated successfully", "deploy_metadata")
       /\ UNCHANGED <<env, dirExists, clock, options, keypairs, mintAddress,
                      distributions, idx, results, records>>

DeployMetadata ==
  /\ RunNode("deploy_metadata", "deploy-metadata.js",
             <<"--network", options.network, DryRunFlag, VerboseFlag>>, {0, 1},
             "Metadata deployment completed", "mint_tokens")
  /\ UNCHANGED <<env, dirExists, clock, options, keypairs, mintAddress,
                 distributions, idx, results, records>>

MintTokens ==
  /\ RunNode("mint_tokens", "mint-token.js",
             <<"--network", options.network, DryRunFlag, VerboseFlag>>, {0, 1},
             "Token minting completed", "create_liquidity")
  /\ UNCHANGED <<env, dirExists, clock, options, keypairs, mintAddress,
                 distributions, idx, results, records>>

CreateLiquidity ==
  /\ RunNode("create_liquidity", "create-liquidity.js",
             <<"--network", options.network>> \o SolAmountFlag \o <<DryRunFlag, VerboseFlag>>,
             {0, 1}, "Liquidity pool creation completed", "verify_deployment")
  /\ UNCHANGED <<env, dirExists, clock, options, keypairs, mintAddress,
                 distributions, idx, results, records>>

VerifyDeployment ==
  /\ RunNode("verify_deployment", "verify-deployment.js",
             <<"--network", options.network>>, ChildStatuses,
             "Deployment verification completed", "backup_metadata")
  /\ UNCHANGED <<env, dirExists, clock, options, keypairs, mintAddress,
                 distributions, idx, results, records>>

BackupMetadata ==
  /\ RunNode("backup_metadata", "backup-metadata.js",
             <<"--network", options.network>>, ChildStatuses,
             "Metadata backup completed", "show_deployment_summary")
  /\ UNCHANGED <<env, dirExists, clock, options, keypairs, mintAddress,
                 distributions, idx, results, records>>

\* show_deployment_summary, the last command of main
ShowDeploymentSummary ==
  /\ pc = "show_deployment_summary"
  /\ log' = Append(log,
              IF options.dryRun
              THEN Ev("log_warning", <<"This was a dry run. No actual deployment occurred.">>, TRUE)
              ELSE Ev("log_success", <<"Deployment completed successfully!">>, TRUE))
  /\ Exit(0)
  /\ UNCHANGED <<env, dirExists, clock, options, keypairs, mintAddress,
                 distributions, idx, results, records>>

NextDeployAll ==
  \/ ShellParse \/ CheckPrerequisites \/ GenerateKeypairs
  \/ DeployMetadata \/ MintTokens \/ CreateLiquidity
  \/ VerifyDeployment \/ BackupMetadata \/ ShowDeploymentSummary

SpecDeployAll == InitDeployAll /\ [][NextDeployAll]_vars

\* the stages of main that start a child process
StageScripts ==
  {"generate-keypairs.js", "deploy-metadata.js", "mint-token.js",
   "create-liquidity.js", "verify-deployment.js", "backup-metadata.js"}

(***************************************************************************)
(* C27: deploy-all.sh in dry-run mode performs no actual deployment: when  *)
(* --dry-run is given, every stage that main runs is either skipped or     *)
(* invoked with the --dry-run flag, so the message 'This was a dry run.    *)
(* No actual deployment occurred.' is printed only after a run in which no *)
(* stage ran in executing mode.                                            *)
(***************************************************************************)
C27_DryRunStagesDry ==
  (script = "deploy-all" /\ options.dryRun) =>
    \A j \in DOMAIN log :
      log[j].call \in StageScripts =>
        \E w \in DOMAIN log[j].arg : log[j].arg[w] = "--dry-run"

\* the message log_error prints when the stage's child fails
StageError(file) ==
  CASE file = "deploy-metadata.js" -> "Metadata deployment failed"
    [] file = "mint-token.js" -> "Token minting failed"
    [] OTHER -> "Liquidity pool creation failed"

(***************************************************************************)
(* C28: in deploy-all.sh a failure of verify-deployment.js or of           *)
(* backup-metadata.js is not fatal: the script logs a warning, goes on     *)
(* with the remaining stages and still prints the deployment summary; a    *)
(* failure of deploy-metadata.js, mint-token.js or create-liquidity.js     *)
(* logs the error message of its stage, runs no later stage and exits 1.   *)
(***************************************************************************)
C28_StageFailures ==
  script = "deploy-all" =>
    \A j \in DOMAIN log :
      ~log[j].ok =>
        /\ log[j].call \in {"verify-deployment.js", "backup-metadata.js"} =>
             /\ j < Len(log) /\ log[j + 1].call = "log_warning"
             /\ Exited => exitCode = 0 /\ log[Len(log)].call \in {"log_warning", "log_success"}
                          /\ Len(log) > j + 1
        /\ log[j].call \in {"deploy-metadata.js", "mint-token.js", "create-liquidity.js"} =>
             /\ Exited /\ exitCode = 1
             /\ Len(log) = j + 1
             /\ log[j + 1] = Ev("log_error", <<StageError(log[j].call)>>, TRUE)

====
